---- MODULE Spec2Model ----
(***************************************************************************)
(* Model of backend/app.py: the Flask handler transcribe_and_chat, its     *)
(* provider adapters (ASR, translation, LLM, TTS) and the process-wide     *)
(* list conversation_history.  Every request runs the handler in its own   *)
(* thread (app.run serves threaded); a thread can be pre-empted between    *)
(* any two statements, and blocks in every requests.post call, so the      *)
(* handler is cut into one action per blocking call and one per append.    *)
(***************************************************************************)
EXTENDS Integers, Sequences, FiniteSets, TLC

\* ---------------------------------------------------------------- bounds
NumReq == 2
MaxHist == 4

Reqs == 1..NumReq

\* ------------------------------------------------------- python values
None == "None"
Absent == "<absent>"

Truthy(v) == v # None /\ v # "" /\ v # Absent

\* Texts the providers can answer with.  The recogniser is asked for hi-IN,
\* the pivot translation targets en-IN, the reply translation targets hi-IN.
HiTexts == {"namaste"}
EnTexts == {"hello"}
ReplyTexts == {"reply"}
SpokenTexts == {"jawab"}

Lang(t) == IF t \in HiTexts \cup SpokenTexts THEN "hi-IN"
           ELSE IF t \in EnTexts \cup ReplyTexts THEN "en-IN"
           ELSE "none"

PivotLanguage == "en-IN"

Steps == <<"asr", "en", "llm", "te", "tts">>
StepSet == {Steps[i] : i \in 1..Len(Steps)}
StepIndex(s) == CHOOSE i \in 1..Len(Steps) : Steps[i] = s

\* What requests.post(...), raise_for_status() and response.json() can do.
RaisingKinds == {"network_error", "http_error", "bad_json"}

\* ------------------------------------------------- provider responses
AsrResponses ==
    [kind : RaisingKinds, transcript : {None}, text : {None}]
    \cup [kind : {"ok"}, transcript : {None, "", "namaste"}, text : {None, "namaste"}]

TranslateResponses(outs) ==
    [kind : RaisingKinds, hasOutput : {FALSE}, output : {None}]
    \cup [kind : {"ok"}, hasOutput : {FALSE}, output : {None}]
    \cup [kind : {"ok"}, hasOutput : {TRUE}, output : outs]

\* choices: "missing" (no such key), "empty" ([]), "one" (a first choice
\* whose message.content is `content`, Absent when the key is missing).
LlmResponses ==
    [kind : RaisingKinds, choices : {"missing"}, content : {Absent}]
    \cup [kind : {"ok"}, choices : {"missing", "empty"}, content : {Absent}]
    \cup [kind : {"ok"}, choices : {"one"}, content : {Absent, None, ""} \cup ReplyTexts]

TtsResponses ==
    [kind : RaisingKinds, hasAudios : {FALSE}, audios : {<< >>}]
    \cup [kind : {"ok"}, hasAudios : {FALSE}, audios : {<< >>}]
    \cup [kind : {"ok"}, hasAudios : {TRUE}, audios : {<< >>, <<"QUJD", "REVG">>}]

\* ------------------------------------------------------------- adapters
\* An adapter call either raises or returns a value.
Raise == [raised |-> TRUE, value |-> None]
Ret(v) == [raised |-> FALSE, value |-> v]

translate_to_english_strict(text, response) ==
    IF response.kind \in RaisingKinds THEN Raise
    ELSE IF response.hasOutput THEN Ret(response.output) ELSE Raise

translate_to_english(text, response) ==
    IF response.kind \in RaisingKinds THEN Raise
    ELSE IF response.hasOutput THEN Ret(response.output) ELSE Ret(text)

translate_to_telugu_identity(text, response) ==
    IF response.kind \in RaisingKinds THEN Raise ELSE Ret(text)

translate_to_telugu(text, response) ==
    IF response.kind \in RaisingKinds THEN Raise
    ELSE IF response.hasOutput THEN Ret(response.output) ELSE Ret(text)

get_tts_audio_base64_indexing(text, response) ==
    IF response.kind \in {"network_error", "http_error"} THEN Raise
    ELSE IF response.kind = "bad_json" THEN Ret(None)
    ELSE IF response.hasAudios /\ Len(response.audios) = 0 THEN Raise
    ELSE IF response.hasAudios THEN Ret(response.audios[1])
    ELSE Ret(None)

get_tts_audio_base64(text, response) ==
    IF response.kind \in {"network_error", "http_error"} THEN Raise
    ELSE IF response.kind = "bad_json" THEN Ret(None)
    ELSE IF response.hasAudios /\ Len(response.audios) > 0
         THEN Ret(response.audios[1])
         ELSE Ret(None)

\* asr_data.get('transcript') or asr_data.get('text')
AsrText(response) ==
    IF Truthy(response.transcript) THEN response.transcript ELSE response.text

\* llm_data.get('choices', [{}])[0].get('message', {}).get('content', '')
LlmContent(response) ==
    IF response.kind \in RaisingKinds \/ response.choices = "empty" THEN Raise
    ELSE IF response.choices = "missing" \/ response.content = Absent THEN Ret("")
    ELSE Ret(response.content)

\* -------------------------------------- classification of the responses
\* What a provider answer is, independently of what the handler makes of it:
\* "raised" when the call, raise_for_status() or response.json() raises out
\* of the step.
AsrTag(response) ==
    IF response.kind \in RaisingKinds THEN "raised"
    ELSE IF Truthy(AsrText(response)) THEN "ok" ELSE "no_transcript"

TranslateTag(response) ==
    IF response.kind \in RaisingKinds THEN "raised"
    ELSE IF response.hasOutput THEN "ok" ELSE "no_output"

LlmTag(response) ==
    IF response.kind \in RaisingKinds THEN "raised"
    ELSE IF response.choices = "empty" THEN "empty_choices"
    ELSE IF response.choices = "one" /\ Truthy(response.content) THEN "ok"
    ELSE "no_content"

TtsTag(response) ==
    IF response.kind \in RaisingKinds THEN response.kind
    ELSE IF ~response.hasAudios THEN "no_audios"
    ELSE IF Len(response.audios) = 0 THEN "empty_audios" ELSE "ok"

\* What the provider answered with, as the caller of the step would name it:
\* the transcript, the translated text, the message content, the first audio.
Payload(v) == IF Truthy(v) THEN v ELSE Absent

AsrPayload(response) ==
    IF response.kind \in RaisingKinds THEN Absent
    ELSE IF Truthy(response.transcript) THEN response.transcript
    ELSE Payload(response.text)

TranslatePayload(response) ==
    IF response.kind \notin RaisingKinds /\ response.hasOutput
    THEN response.output ELSE Absent

LlmPayload(response) ==
    IF response.kind \notin RaisingKinds /\ response.choices = "one"
    THEN Payload(response.content) ELSE Absent

TtsPayload(response) ==
    IF response.kind \notin RaisingKinds /\ response.hasAudios
         /\ Len(response.audios) > 0
    THEN Head(response.audios) ELSE Absent

\* ------------------------------------------------------------ responses
NoBody == [error |-> Absent, details |-> Absent, userTranscript |-> Absent,
           translatedTranscript |-> Absent, assistantReply |-> Absent,
           assistantReplyHindi |-> Absent, audioBase64 |-> Absent,
           message |-> Absent]

ErrorBody(msg, det) == [NoBody EXCEPT !.error = msg, !.details = det]

VARIABLES
    SARVAM_API_KEY,        \* TRUE iff the key is set (truthy)
    OPENROUTER_API_KEY,
    conversation_history,  \* the module-level list of turns
    history_writer,        \* for each stored turn, the request thread that appended it
    pc,                    \* position of each request thread in the handler
    hasAudio,              \* 'audio' in request.files
    transcribed_text, translated_text, messages_for_llm,
    assistant_reply, translated_reply,
    status, body,          \* the HTTP response of the request
    calls,                 \* number of requests.post calls issued per step
    resp,                  \* classification of the provider answer per step
    call_log,              \* the calls issued so far, in order: step, input sent, payload answered
    hist0                  \* conversation_history when the request entered the handler

locals == <<transcribed_text, translated_text, messages_for_llm,
            assistant_reply, translated_reply>>
keys == <<SARVAM_API_KEY, OPENROUTER_API_KEY>>
history == <<conversation_history, history_writer>>
ghost == <<hist0>>
vars == <<SARVAM_API_KEY, OPENROUTER_API_KEY, conversation_history, history_writer,
          pc, hasAudio, transcribed_text, translated_text, messages_for_llm,
          assistant_reply, translated_reply, status, body, calls, resp,
          call_log, hist0>>

NoCalls == [s \in StepSet |-> 0]
NoResp == [s \in StepSet |-> "none"]

Active(r) == pc[r] \notin {"idle", "done", "health_done"}

Init ==
    /\ SARVAM_API_KEY \in BOOLEAN
    /\ OPENROUTER_API_KEY \in BOOLEAN
    /\ conversation_history = << >>
    /\ history_writer = << >>
    /\ pc = [r \in Reqs |-> "idle"]
    /\ hasAudio = [r \in Reqs |-> FALSE]
    /\ transcribed_text = [r \in Reqs |-> None]
    /\ translated_text = [r \in Reqs |-> None]
    /\ messages_for_llm = [r \in Reqs |-> << >>]
    /\ assistant_reply = [r \in Reqs |-> None]
    /\ translated_reply = [r \in Reqs |-> None]
    /\ status = [r \in Reqs |-> 0]
    /\ body = [r \in Reqs |-> NoBody]
    /\ calls = [r \in Reqs |-> NoCalls]
    /\ resp = [r \in Reqs |-> NoResp]
    /\ call_log = [r \in Reqs |-> << >>]
    /\ hist0 = [r \in Reqs |-> << >>]

\* The handler returns: the response is sent and the frame's locals die.
Return(r, st, bd) ==
    /\ pc' = [pc EXCEPT ![r] = "done"]
    /\ status' = [status EXCEPT ![r] = st]
    /\ body' = [body EXCEPT ![r] = bd]
    /\ transcribed_text' = [transcribed_text EXCEPT ![r] = None]
    /\ translated_text' = [translated_text EXCEPT ![r] = None]
    /\ messages_for_llm' = [messages_for_llm EXCEPT ![r] = << >>]
    /\ assistant_reply' = [assistant_reply EXCEPT ![r] = None]
    /\ translated_reply' = [translated_reply EXCEPT ![r] = None]

CatchAllRetry(r) ==
    /\ pc' = [pc EXCEPT ![r] = "asr"]
    /\ transcribed_text' = [transcribed_text EXCEPT ![r] = None]
    /\ translated_text' = [translated_text EXCEPT ![r] = None]
    /\ messages_for_llm' = [messages_for_llm EXCEPT ![r] = << >>]
    /\ assistant_reply' = [assistant_reply EXCEPT ![r] = None]
    /\ translated_reply' = [translated_reply EXCEPT ![r] = None]
    /\ UNCHANGED <<status, body>>

\* except Exception as e: ... return jsonify({"error": ..., "details": str(e)}), 500
CatchAll(r) ==
    Return(r, 500, ErrorBody("An internal server error occurred.", "str(e)"))

\* One external call of step s was issued with `input` and answered with
\* tag t and payload `output`.
Called(r, s, input, t, output) ==
    /\ calls' = [calls EXCEPT ![r][s] = @ + 1]
    /\ resp' = [resp EXCEPT ![r][s] = t]
    /\ call_log' = [call_log EXCEPT ![r] =
          Append(@, [step |-> s, input |-> input, output |-> output])]

\* The two guards at the top of the handler, in source order.
EntryCheckKeysFirst(audio) ==
    IF ~SARVAM_API_KEY \/ ~OPENROUTER_API_KEY THEN "no_keys"
    ELSE IF ~audio THEN "no_audio"
    ELSE "ok"

EntryCheckBothMissing(audio) ==
    IF ~audio THEN "no_audio"
    ELSE IF ~SARVAM_API_KEY /\ ~OPENROUTER_API_KEY THEN "no_keys"
    ELSE "ok"

EntryCheck(audio) ==
    IF ~audio THEN "no_audio"
    ELSE IF ~SARVAM_API_KEY \/ ~OPENROUTER_API_KEY THEN "no_keys"
    ELSE "ok"

\* The record of a served response (status, body, what the run called and got)
\* is kept for the finished requests other than r until the next request
\* arrives; the handler itself keeps nothing of a request it has answered.
Cleared(f, r, init) ==
    [q \in Reqs |-> IF q = r \/ Active(q) THEN f[q] ELSE init]

\* A POST /api/transcribe-and-chat arrives and the handler runs up to the
\* try block.
Receive(r) ==
    /\ pc[r] \in {"idle", "done", "health_done"}
    /\ Len(conversation_history)
         + 2 * Cardinality({q \in Reqs : Active(q)}) + 2 <= MaxHist
    /\ \E audio \in BOOLEAN :
        /\ hasAudio' = [Cleared(hasAudio, r, FALSE) EXCEPT ![r] = audio]
        /\ hist0' = [Cleared(hist0, r, << >>) EXCEPT ![r] = conversation_history]
        /\ calls' = [Cleared(calls, r, NoCalls) EXCEPT ![r] = NoCalls]
        /\ resp' = [Cleared(resp, r, NoResp) EXCEPT ![r] = NoResp]
        /\ call_log' = [Cleared(call_log, r, << >>) EXCEPT ![r] = << >>]
        /\ CASE EntryCheck(audio) = "no_audio" ->
                  /\ pc' = [Cleared(pc, r, "idle") EXCEPT ![r] = "done"]
                  /\ status' = [Cleared(status, r, 0) EXCEPT ![r] = 400]
                  /\ body' = [Cleared(body, r, NoBody) EXCEPT ![r] =
                        ErrorBody("No audio file uploaded.", Absent)]
             [] EntryCheck(audio) = "no_keys" ->
                  /\ pc' = [Cleared(pc, r, "idle") EXCEPT ![r] = "done"]
                  /\ status' = [Cleared(status, r, 0) EXCEPT ![r] = 500]
                  /\ body' = [Cleared(body, r, NoBody) EXCEPT ![r] =
                        ErrorBody("API keys not configured on the server.", Absent)]
             [] OTHER ->
                  /\ pc' = [Cleared(pc, r, "idle") EXCEPT ![r] = "asr"]
                  /\ status' = [Cleared(status, r, 0) EXCEPT ![r] = 0]
                  /\ body' = [Cleared(body, r, NoBody) EXCEPT ![r] = NoBody]
    /\ UNCHANGED <<keys, history, locals>>

AsrFailedNever(text) == FALSE

AsrFailed(text) == ~Truthy(text)

\* 1. Transcription (Sarvam ASR)
Transcribe(r) ==
    /\ pc[r] = "asr"
    /\ \E response \in AsrResponses :
        /\ Called(r, "asr", "audio_bytes", AsrTag(response), AsrPayload(response))
        /\ IF response.kind \in RaisingKinds
           THEN CatchAll(r)
           ELSE IF AsrFailed(AsrText(response))
           THEN Return(r, 500, ErrorBody("Failed to transcribe audio. No transcript returned.", "asr_data"))
           ELSE /\ transcribed_text' = [transcribed_text EXCEPT ![r] = AsrText(response)]
                /\ pc' = [pc EXCEPT ![r] = "translate_en"]
                /\ UNCHANGED <<translated_text, messages_for_llm, assistant_reply,
                               translated_reply, status, body>>
    /\ UNCHANGED <<keys, history, hasAudio, ghost>>

\* 2. Translate transcribed text to English
TranslateToEnglish(r) ==
    /\ pc[r] = "translate_en"
    /\ \E response \in TranslateResponses(EnTexts) :
        LET out == translate_to_english(transcribed_text[r], response) IN
        /\ Called(r, "en", transcribed_text[r], TranslateTag(response),
                  TranslatePayload(response))
        /\ IF out.raised
           THEN CatchAll(r)
           ELSE /\ translated_text' = [translated_text EXCEPT ![r] = out.value]
                /\ pc' = [pc EXCEPT ![r] = "build_messages"]
                /\ UNCHANGED <<transcribed_text, messages_for_llm, assistant_reply,
                               translated_reply, status, body>>
    /\ UNCHANGED <<keys, history, hasAudio, ghost>>

SystemMessage == [role |-> "system", content |-> "current_system_prompt"]

UserTurnRaw(r) == [role |-> "user", content |-> transcribed_text[r]]

UserTurn(r) == [role |-> "user", content |-> translated_text[r]]

AssistantTurnAsUser(r) == [role |-> "user", content |-> assistant_reply[r]]

AssistantTurn(r) == [role |-> "assistant", content |-> assistant_reply[r]]

MessagesForNoHistory(r) == <<SystemMessage, UserTurn(r)>>

MessagesForTwice(r) ==
    <<SystemMessage>> \o conversation_history \o <<UserTurn(r), UserTurn(r)>>

\* [system, *conversation_history, user]
MessagesFor(r) == <<SystemMessage>> \o conversation_history \o <<UserTurn(r)>>

\* 3. LLM: the message list is built from the shared list as it is now ...
BuildMessages(r) ==
    /\ pc[r] = "build_messages"
    /\ messages_for_llm' = [messages_for_llm EXCEPT ![r] = MessagesFor(r)]
    /\ pc' = [pc EXCEPT ![r] = "call_llm"]
    /\ UNCHANGED <<keys, history, hasAudio, transcribed_text, translated_text,
                   assistant_reply, translated_reply, status, body, calls, resp,
                   call_log, ghost>>

\* The content of the last message of the list sent to the LLM.
NewestUserMessage(r) == messages_for_llm[r][Len(messages_for_llm[r])].content

LlmFailedNever(reply) == FALSE

LlmFailed(reply) == ~Truthy(reply)

\* ... and sent in a blocking call.
CallLLM(r) ==
    /\ pc[r] = "call_llm"
    /\ \E response \in LlmResponses :
        LET out == LlmContent(response) IN
        /\ Called(r, "llm", NewestUserMessage(r), LlmTag(response), LlmPayload(response))
        /\ IF out.raised
           THEN CatchAll(r)
           ELSE IF LlmFailed(out.value)
           THEN Return(r, 500, ErrorBody("LLM did not return content.", "llm_data"))
           ELSE /\ assistant_reply' = [assistant_reply EXCEPT ![r] = out.value]
                /\ pc' = [pc EXCEPT ![r] = "append_user"]
                /\ UNCHANGED <<transcribed_text, translated_text, messages_for_llm,
                               translated_reply, status, body>>
    /\ UNCHANGED <<keys, history, hasAudio, ghost>>

ListAppendFront(r, turn) ==
    /\ conversation_history' = <<turn>> \o conversation_history
    /\ history_writer' = <<r>> \o history_writer

\* conversation_history.append(turn), executed by thread r
ListAppend(r, turn) ==
    /\ conversation_history' = Append(conversation_history, turn)
    /\ history_writer' = Append(history_writer, r)

\* 4. Memory Management: two separate list.append statements
AppendUser(r) ==
    /\ pc[r] = "append_user"
    /\ ListAppend(r, UserTurn(r))
    /\ pc' = [pc EXCEPT ![r] = "append_assistant"]
    /\ UNCHANGED <<keys, hasAudio, locals, status, body, calls, resp, call_log, ghost>>

AppendAssistant(r) ==
    /\ pc[r] = "append_assistant"
    /\ ListAppend(r, AssistantTurn(r))
    /\ pc' = [pc EXCEPT ![r] = "translate_te"]
    /\ UNCHANGED <<keys, hasAudio, locals, status, body, calls, resp, call_log, ghost>>

\* 5. Translate LLM reply (for TTS)
TranslateToTelugu(r) ==
    /\ pc[r] = "translate_te"
    /\ \E response \in TranslateResponses(SpokenTexts) :
        LET out == translate_to_telugu(assistant_reply[r], response) IN
        /\ Called(r, "te", assistant_reply[r], TranslateTag(response),
                  TranslatePayload(response))
        /\ IF out.raised
           THEN CatchAll(r)
           ELSE /\ translated_reply' = [translated_reply EXCEPT ![r] = out.value]
                /\ pc' = [pc EXCEPT ![r] = "tts"]
                /\ UNCHANGED <<transcribed_text, translated_text, messages_for_llm,
                               assistant_reply, status, body>>
    /\ UNCHANGED <<keys, history, hasAudio, ghost>>

SuccessBodyTranslated(r, audio_base64) ==
    [NoBody EXCEPT !.userTranscript = translated_text[r],
                   !.translatedTranscript = translated_text[r],
                   !.assistantReply = assistant_reply[r],
                   !.assistantReplyHindi = translated_reply[r],
                   !.audioBase64 = audio_base64]

\* 7. Respond to frontend
SuccessBody(r, audio_base64) ==
    [NoBody EXCEPT !.userTranscript = transcribed_text[r],
                   !.translatedTranscript = translated_text[r],
                   !.assistantReply = assistant_reply[r],
                   !.assistantReplyHindi = translated_reply[r],
                   !.audioBase64 = audio_base64]

\* 6. TTS (Sarvam), then the response
Synthesize(r) ==
    /\ pc[r] = "tts"
    /\ \E response \in TtsResponses :
        LET out == get_tts_audio_base64(translated_reply[r], response) IN
        /\ Called(r, "tts", translated_reply[r], TtsTag(response), TtsPayload(response))
        /\ IF out.raised
           THEN CatchAll(r)
           ELSE Return(r, 200, SuccessBody(r, out.value))
    /\ UNCHANGED <<keys, history, hasAudio, ghost>>

\* GET /: a static JSON message; the thread touches nothing else.
HealthCheck(r) ==
    /\ pc[r] \in {"idle", "done", "health_done"}
    /\ pc' = [pc EXCEPT ![r] = "health_done"]
    /\ status' = [status EXCEPT ![r] = 200]
    /\ body' = [body EXCEPT ![r] =
          [NoBody EXCEPT !.message = "Voice Assistant Backend (Magic Bricks) is running."]]
    /\ hasAudio' = [hasAudio EXCEPT ![r] = FALSE]
    /\ calls' = [calls EXCEPT ![r] = NoCalls]
    /\ resp' = [resp EXCEPT ![r] = NoResp]
    /\ call_log' = [call_log EXCEPT ![r] = << >>]
    /\ hist0' = [hist0 EXCEPT ![r] = << >>]
    /\ UNCHANGED <<keys, history, locals>>

Next ==
    \E r \in Reqs :
        \/ Receive(r)
        \/ HealthCheck(r)
        \/ Transcribe(r)
        \/ TranslateToEnglish(r)
        \/ BuildMessages(r)
        \/ CallLLM(r)
        \/ AppendUser(r)
        \/ AppendAssistant(r)
        \/ TranslateToTelugu(r)
        \/ Synthesize(r)

Spec == Init /\ [][Next]_vars

\* The same server when requests do not overlap: a request enters the
\* handler only when no other request is inside it.
ReceiveSeq(r) ==
    /\ \A q \in Reqs : ~Active(q)
    /\ Receive(r)

NextSeq ==
    \E r \in Reqs :
        \/ ReceiveSeq(r)
        \/ HealthCheck(r)
        \/ Transcribe(r)
        \/ TranslateToEnglish(r)
        \/ BuildMessages(r)
        \/ CallLLM(r)
        \/ AppendUser(r)
        \/ AppendAssistant(r)
        \/ TranslateToTelugu(r)
        \/ Synthesize(r)

SpecSeq == Init /\ [][NextSeq]_vars

\* A handler thread that is inside the pipeline keeps running: every
\* external call returns or raises, and nothing else can block it.
Advance(r) ==
    \/ Transcribe(r)
    \/ TranslateToEnglish(r)
    \/ BuildMessages(r)
    \/ CallLLM(r)
    \/ AppendUser(r)
    \/ AppendAssistant(r)
    \/ TranslateToTelugu(r)
    \/ Synthesize(r)

FairSpec == Spec /\ \A r \in Reqs : WF_vars(Advance(r))

\* ------------------------------------------------------------ vocabulary
\* The answers that make a step fail: the call raised, the recogniser gave no
\* transcript, the LLM gave no content.  A translation answer without
\* `output` and a TTS answer without audio (or with an unparsable body, which
\* the adapter swallows) are not failures of their step.
FailKinds(s) ==
    IF s = "asr" THEN {"raised", "no_transcript"}
    ELSE IF s = "llm" THEN {"raised", "no_content", "empty_choices"}
    ELSE IF s = "tts" THEN {"network_error", "http_error"}
    ELSE {"raised"}

Failed(r, s) == resp[r][s] \in FailKinds(s)
Succeeded(r, s) == calls[r][s] >= 1 /\ resp[r][s] # "none" /\ ~Failed(r, s)
LaterSteps(s) == {Steps[j] : j \in (StepIndex(s) + 1)..Len(Steps)}

\* The turns the current run of request r has appended.
RunTurns(r) ==
    {i \in (Len(hist0[r]) + 1)..Len(conversation_history) : history_writer[i] = r}
FirstRunTurn(r) == CHOOSE i \in RunTurns(r) : \A j \in RunTurns(r) : i <= j

WriterIdx(r) == {i \in 1..Len(history_writer) : history_writer[i] = r}
Rank(r, i) == Cardinality({j \in WriterIdx(r) : j <= i})

Returns(r) == pc[r] # "done" /\ pc'[r] = "done"

\* C1: a run that ends in an error response (400 or 500) has appended no turn:
\* the history when it returns is the history it found, whatever step failed
\* (checked with requests that do not overlap, so that no other run can have
\* changed the list in between).
C1_FailedRunLeavesHistory ==
    [][\A r \in Reqs :
          (Returns(r) /\ status'[r] \in {400, 500})
             => conversation_history' = hist0[r]]_vars

\* C2: with requests that do not overlap, a run that returns 200 leaves the
\* history it found followed by exactly the user turn (translated text) and
\* the assistant turn (LLM reply).
C2_SuccessAppendsPair ==
    [][\A r \in Reqs :
          (Returns(r) /\ status'[r] = 200)
             => conversation_history' = hist0[r] \o
                  << [role |-> "user", content |-> body'[r].translatedTranscript],
                     [role |-> "assistant", content |-> body'[r].assistantReply] >>]_vars

C2_Witness ==
    \E r \in Reqs :
        /\ pc[r] = "done" /\ status[r] = 200
        /\ Len(hist0[r]) = 2
        /\ Len(conversation_history) = 4
        /\ conversation_history[3].content = body[r].translatedTranscript
        /\ conversation_history[4].content = body[r].assistantReply

\* C3: a run has appended turns only if its reply-translation step and its
\* speech-synthesis step have both completed successfully.
C3_AppendOnlyAfterPipeline ==
    \A r \in Reqs :
        RunTurns(r) # {} => Succeeded(r, "te") /\ Succeeded(r, "tts")

\* C4: a request without the audio field is answered 400 with an error field,
\* has issued no external call and has appended nothing, whether or not the
\* API keys are configured.
C4_NoAudioIs400 ==
    \A r \in Reqs :
        (pc[r] = "done" /\ ~hasAudio[r])
           => /\ status[r] = 400
              /\ body[r].error # Absent
              /\ calls[r] = NoCalls
              /\ RunTurns(r) = {}

C4_Witness ==
    \E r \in Reqs :
        /\ pc[r] = "done" /\ ~hasAudio[r] /\ status[r] = 400
        /\ ~SARVAM_API_KEY /\ ~OPENROUTER_API_KEY
        /\ conversation_history = hist0[r]

\* C5: each external call is issued at most once per request; once a step has
\* failed no later step's call is issued and the request has ended with an
\* error response.
C5_NoRetryFirstFailureAborts ==
    \A r \in Reqs :
        /\ \A s \in StepSet : calls[r][s] <= 1
        /\ \A s \in StepSet :
              Failed(r, s) =>
                 /\ \A t \in LaterSteps(s) : calls[r][t] = 0
                 /\ pc[r] = "done"
                 /\ status[r] \in {400, 500}
                 /\ body[r].error # Absent

C5_Witness ==
    \E r \in Reqs :
        /\ pc[r] = "done" /\ status[r] = 500
        /\ calls[r]["asr"] = 1 /\ calls[r]["en"] = 1
        /\ resp[r]["en"] = "raised"
        /\ calls[r]["llm"] = 0 /\ calls[r]["te"] = 0 /\ calls[r]["tts"] = 0

\* C6 as stated: every user turn stored in the history is in the pivot
\* language, for every answer of the translation provider.
C6_AllUserTurnsPivot ==
    \A i \in 1..Len(conversation_history) :
        conversation_history[i].role = "user"
           => Lang(conversation_history[i].content) = PivotLanguage

\* C6 amended: the user turn a run appends is the output of
\* translate_to_english, which is also the newest user message sent to the
\* LLM; it is in the pivot language when the translation answer carried an
\* `output` field, and it is the raw transcript when it did not.
C6_UserTurnIsTranslatedText ==
    \A r \in Reqs :
        /\ pc[r] \in {"append_assistant", "translate_te", "tts"} =>
              /\ RunTurns(r) # {}
              /\ conversation_history[FirstRunTurn(r)] =
                     [role |-> "user", content |-> translated_text[r]]
              /\ messages_for_llm[r][Len(messages_for_llm[r])] =
                     conversation_history[FirstRunTurn(r)]
              /\ resp[r]["en"] = "ok" =>
                     Lang(translated_text[r]) = PivotLanguage
              /\ resp[r]["en"] = "no_output" =>
                     translated_text[r] = transcribed_text[r]
        /\ (pc[r] = "done" /\ status[r] = 200) =>
              /\ RunTurns(r) # {}
              /\ conversation_history[FirstRunTurn(r)] =
                     [role |-> "user", content |-> body[r].translatedTranscript]
              /\ resp[r]["en"] = "ok" =>
                     Lang(body[r].translatedTranscript) = PivotLanguage
              /\ resp[r]["en"] = "no_output" =>
                     body[r].translatedTranscript = body[r].userTranscript

C6_Witness ==
    \E r \in Reqs :
        /\ pc[r] = "done" /\ status[r] = 200 /\ resp[r]["en"] = "ok"
        /\ body[r].userTranscript = "namaste"
        /\ body[r].translatedTranscript = "hello"
        /\ conversation_history[FirstRunTurn(r)].content = "hello"

\* C7: a translation answer with a success status and no `output` field makes
\* the adapter return its input; the step does not fail, the next step is
\* reached and the request can end with 200.
C7_TranslationFallback ==
    \A r \in Reqs :
        /\ resp[r]["en"] = "no_output" =>
              /\ pc[r] # "done" => translated_text[r] = transcribed_text[r]
              /\ pc[r] = "done" => calls[r]["llm"] = 1
              /\ (pc[r] = "done" /\ status[r] = 200) =>
                     body[r].translatedTranscript = body[r].userTranscript
        /\ resp[r]["te"] = "no_output" =>
              /\ pc[r] # "done" => translated_reply[r] = assistant_reply[r]
              /\ pc[r] = "done" => calls[r]["tts"] = 1
              /\ (pc[r] = "done" /\ status[r] = 200) =>
                     body[r].assistantReplyHindi = body[r].assistantReply

C7_Witness ==
    \E r \in Reqs :
        /\ pc[r] = "done" /\ status[r] = 200
        /\ resp[r]["en"] = "no_output" /\ resp[r]["te"] = "no_output"
        /\ body[r].translatedTranscript = body[r].userTranscript
        /\ body[r].assistantReplyHindi = body[r].assistantReply

\* C8: a TTS answer with a success status and an empty or absent `audios`
\* array ends the request with 200 and a null audioBase64; a TTS answer with
\* an error status ends it with 500.
C8_TtsEmptyVersusHttpError ==
    \A r \in Reqs :
        pc[r] = "done" =>
           /\ resp[r]["tts"] \in {"empty_audios", "no_audios"} =>
                 /\ status[r] = 200
                 /\ body[r].audioBase64 = None
                 /\ body[r].error = Absent
           /\ resp[r]["tts"] = "http_error" =>
                 /\ status[r] = 500
                 /\ body[r].error # Absent
                 /\ body[r].audioBase64 = Absent

C8_Witness ==
    \E r \in Reqs :
        /\ pc[r] = "done" /\ status[r] = 200
        /\ resp[r]["tts"] = "empty_audios"
        /\ body[r].audioBase64 = None

C10_OwnTurnsInOrder ==
    /\ Len(history_writer) = Len(conversation_history)
    /\ \A i \in 1..Len(conversation_history) :
          (conversation_history[i].role = "user")
              <=> (Rank(history_writer[i], i) % 2 = 1)
    /\ \A r \in Reqs :
          (Cardinality(WriterIdx(r)) % 2 = 1) <=> (pc[r] = "append_assistant")

\* The interleaved history user_A, user_B, assistant_A, assistant_B.
C10_Witness ==
    \E a, b \in Reqs :
        /\ a # b
        /\ history_writer = <<a, b, a, b>>
        /\ [i \in 1..4 |-> conversation_history[i].role]
              = <<"user", "user", "assistant", "assistant">>

\* What an adapter hands on: the payload, or its input when the translation
\* answer carried none.
HandedOn(entry) == IF entry.output # Absent THEN entry.output ELSE entry.input

\* C11: the calls of a request are issued in the order ASR, pivot translation,
\* LLM, reply translation, TTS; a run that returns 200 has issued each exactly
\* once and each step was given what the previous step handed on.
C11_CallsOnceInOrder ==
    \A r \in Reqs :
        /\ Len(call_log[r]) <= Len(Steps)
        /\ \A i \in 1..Len(call_log[r]) : call_log[r][i].step = Steps[i]
        /\ (pc[r] = "done" /\ status[r] = 200) =>
              /\ calls[r] = [s \in StepSet |-> 1]
              /\ Len(call_log[r]) = Len(Steps)
              /\ call_log[r][1].output # Absent
              /\ call_log[r][2].input = call_log[r][1].output
              /\ call_log[r][3].input = HandedOn(call_log[r][2])
              /\ call_log[r][3].output # Absent
              /\ call_log[r][4].input = call_log[r][3].output
              /\ call_log[r][5].input = HandedOn(call_log[r][4])

C11_Witness ==
    \E r \in Reqs :
        /\ pc[r] = "done" /\ status[r] = 200
        /\ [i \in 1..5 |-> call_log[r][i].output]
              = <<"namaste", "hello", "reply", "jawab", "QUJD">>
        /\ [i \in 2..5 |-> call_log[r][i].input]
              = [i \in 2..5 |-> call_log[r][i - 1].output]

\* C12 as stated: in every 200 response userTranscript is the recogniser's
\* transcript, assistantReply is the LLM's content and audioBase64 is the
\* first element of the TTS answer's audios array.
C12_ResponseEchoesProviders ==
    \A r \in Reqs :
        (pc[r] = "done" /\ status[r] = 200) =>
            /\ body[r].userTranscript = call_log[r][1].output
            /\ body[r].assistantReply = call_log[r][3].output
            /\ call_log[r][5].output # Absent
            /\ body[r].audioBase64 = call_log[r][5].output

\* C12 amended: audioBase64 is the first element of the audios array when the
\* TTS answer has a non-empty one, and null when it has none.
C12_ResponseEchoesProvidersOrNull ==
    \A r \in Reqs :
        (pc[r] = "done" /\ status[r] = 200) =>
            /\ body[r].userTranscript = call_log[r][1].output
            /\ body[r].assistantReply = call_log[r][3].output
            /\ call_log[r][2].output # Absent =>
                  body[r].userTranscript # body[r].translatedTranscript
            /\ call_log[r][4].output # Absent =>
                  body[r].assistantReply # body[r].assistantReplyHindi
            /\ body[r].audioBase64 =
                  IF call_log[r][5].output # Absent
                  THEN call_log[r][5].output ELSE None

C12_Witness ==
    \E r \in Reqs :
        /\ pc[r] = "done" /\ status[r] = 200
        /\ body[r].userTranscript = "namaste"
        /\ body[r].translatedTranscript = "hello"
        /\ body[r].assistantReply = "reply"
        /\ body[r].assistantReplyHindi = "jawab"
        /\ body[r].audioBase64 = "QUJD"
        /\ resp[r]["tts"] = "ok"

IsPrefix(s, t) == Len(s) <= Len(t) /\ SubSeq(t, 1, Len(s)) = s

\* C13: the list sent to the LLM is the system message, then the shared
\* history as it is when the list is built, in stored order, then the current
\* utterance as one user message; the run has not appended its utterance yet,
\* so the utterance is in the list once, at the end.
C13_MessageList ==
    [][\A r \in Reqs :
          /\ (pc[r] = "build_messages" /\ pc'[r] = "call_llm") =>
                /\ messages_for_llm'[r] =
                      <<SystemMessage>> \o conversation_history
                         \o <<[role |-> "user", content |-> translated_text[r]]>>
                /\ Len(messages_for_llm'[r]) = Len(conversation_history) + 2
                /\ RunTurns(r) = {}
          /\ (pc[r] = "call_llm" /\ pc'[r] # "call_llm") =>
                /\ messages_for_llm[r][1] = SystemMessage
                /\ \A i \in 2..Len(messages_for_llm[r]) :
                      messages_for_llm[r][i].role # "system"
                /\ IsPrefix(SubSeq(messages_for_llm[r], 2, Len(messages_for_llm[r]) - 1),
                            conversation_history)
                /\ NewestUserMessage(r) = translated_text[r]
                /\ RunTurns(r) = {}]_vars

C13_Witness ==
    \E r \in Reqs :
        /\ pc[r] = "call_llm"
        /\ Len(conversation_history) = 2
        /\ messages_for_llm[r] =
              <<SystemMessage, conversation_history[1], conversation_history[2],
                [role |-> "user", content |-> translated_text[r]]>>
        /\ RunTurns(r) = {}

\* C14: every step leaves the old history as a prefix of the new one; a GET /
\* leaves it unchanged, and so does the return of a request that failed
\* before the LLM had answered, whose run has appended nothing.
C14_AppendOnly ==
    [][/\ IsPrefix(conversation_history, conversation_history')
       /\ \A r \in Reqs :
             /\ (pc'[r] = "health_done" /\ pc[r] # "health_done") =>
                   conversation_history' = conversation_history
             /\ (Returns(r) /\ status'[r] \in {400, 500} /\ resp'[r]["llm"] # "ok") =>
                   /\ conversation_history' = conversation_history
                   /\ \A i \in (Len(hist0'[r]) + 1)..Len(conversation_history') :
                         history_writer'[i] # r]_vars

C14_Witness ==
    \E r, q \in Reqs :
        /\ pc[r] = "health_done" /\ status[r] = 200
        /\ pc[q] = "done" /\ status[q] = 500 /\ resp[q]["en"] = "raised"
        /\ Len(hist0[q]) = 2
        /\ hist0[q] = conversation_history

NoneActive == \A r \in Reqs : ~Active(r)

\* C15: with requests that do not overlap, whenever no request is inside the
\* handler the history has even length and alternates user, assistant, ...,
\* starting with a user turn, whatever requests succeeded or failed before.
C15_AlternatesBetweenRequests ==
    NoneActive =>
        /\ Len(conversation_history) % 2 = 0
        /\ \A i \in 1..Len(conversation_history) :
              conversation_history[i].role =
                 IF i % 2 = 1 THEN "user" ELSE "assistant"

\* A request that failed after its appends, served after an earlier pair.
C15_Witness ==
    \E q \in Reqs :
        /\ NoneActive
        /\ Len(conversation_history) = 4
        /\ pc[q] = "done" /\ status[q] = 500 /\ resp[q]["te"] = "raised"
        /\ Len(hist0[q]) = 2
        /\ RunTurns(q) = {3, 4}

\* The number of stored turns the LLM of request r was (or is being) given.
ContextLen(r) == Len(messages_for_llm[r]) - 2
AfterBuild == {"call_llm", "append_user", "append_assistant", "translate_te", "tts"}

\* C16: the context a request gives the LLM is the history as it was when
\* the list was built: a prefix of the present history that has everything
\* stored when the request entered and none of the request's own turns.
\* Turns other requests appended after the read are absent from it, also when
\* they end up before the request's own pair (see C16_Witness).
C16_ContextIsReadTimePrefix ==
    \A r \in Reqs :
        pc[r] \in AfterBuild =>
            /\ Len(hist0[r]) <= ContextLen(r)
            /\ ContextLen(r) <= Len(conversation_history)
            /\ SubSeq(messages_for_llm[r], 2, ContextLen(r) + 1)
                  = SubSeq(conversation_history, 1, ContextLen(r))
            /\ \A i \in RunTurns(r) : i > ContextLen(r)

\* Both requests read the same history H, both appended, and the later pair's
\* reply was generated from a list without the earlier pair.
C16_Witness ==
    \E a, b \in Reqs :
        /\ a # b
        /\ pc[a] \in {"translate_te", "tts"} /\ pc[b] \in {"translate_te", "tts"}
        /\ ContextLen(a) = ContextLen(b)
        /\ SubSeq(messages_for_llm[a], 2, ContextLen(a) + 1)
              = SubSeq(messages_for_llm[b], 2, ContextLen(b) + 1)
        /\ Len(conversation_history) = ContextLen(a) + 4
        /\ SubSeq(history_writer, ContextLen(a) + 1, ContextLen(a) + 4) = <<a, a, b, b>>
        /\ FirstRunTurn(b) > ContextLen(b) + 2

\* C17: a request with an audio field on a server where one of the two keys
\* is not configured is answered 500 with an error field, has issued no
\* external call and has appended nothing.
C17_MissingKeysIs500 ==
    \A r \in Reqs :
        (hasAudio[r] /\ pc[r] # "idle" /\ (~SARVAM_API_KEY \/ ~OPENROUTER_API_KEY)) =>
            /\ pc[r] = "done"
            /\ status[r] = 500
            /\ body[r].error # Absent
            /\ calls[r] = NoCalls
            /\ call_log[r] = << >>
            /\ RunTurns(r) = {}

C17_Witness ==
    \E r \in Reqs :
        /\ hasAudio[r] /\ pc[r] = "done" /\ status[r] = 500
        /\ SARVAM_API_KEY /\ ~OPENROUTER_API_KEY
        /\ calls[r] = NoCalls
        /\ conversation_history = hist0[r]

PcOrder == <<"asr", "translate_en", "build_messages", "call_llm", "append_user",
             "append_assistant", "translate_te", "tts", "done">>
PcRank(p) == CHOOSE i \in 1..Len(PcOrder) : PcOrder[i] = p

\* The error outcome is one step away from each step that can fail.
ErrorReachable(r) ==
    /\ ENABLED Receive(r) => ENABLED (Receive(r) /\ status'[r] = 400)
    /\ pc[r] = "asr" => ENABLED (Transcribe(r) /\ status'[r] = 500)
    /\ pc[r] = "translate_en" => ENABLED (TranslateToEnglish(r) /\ status'[r] = 500)
    /\ pc[r] = "call_llm" => ENABLED (CallLLM(r) /\ status'[r] = 500)
    /\ pc[r] = "translate_te" => ENABLED (TranslateToTelugu(r) /\ status'[r] = 500)
    /\ pc[r] = "tts" => ENABLED (Synthesize(r) /\ status'[r] = 500)

\* C18: a request inside the handler has no response yet and can still end in
\* an error; each of its steps moves it forward in the pipeline, never back;
\* it eventually returns, and a returned request has exactly one of the
\* statuses 200, 400, 500.
C18_Terminates ==
    /\ [](\A r \in Reqs :
            /\ Active(r) => status[r] = 0
            /\ pc[r] = "done" => status[r] \in {200, 400, 500}
            /\ ErrorReachable(r))
    /\ [][\A r \in Reqs :
            (Active(r) /\ pc'[r] # pc[r]) => PcRank(pc'[r]) > PcRank(pc[r])]_vars
    /\ \A r \in Reqs : Active(r) ~> (pc[r] = "done")

C18_Witness ==
    \E r, q \in Reqs :
        /\ pc[r] = "done" /\ status[r] = 200 /\ Len(call_log[r]) = 5
        /\ pc[q] = "done" /\ status[q] = 500 /\ resp[q]["tts"] = "http_error"

====
